---- MODULE Spec2Model ----
(***************************************************************************)
(* Worker-side fingerprint cache of xingrin                                *)
(* (backend/apps/scan/utils/fingerprint_helpers.py) against the central    *)
(* fingerprint store.  Each worker runs ensure_<lib>_fingerprint_local for *)
(* one library; the store is mutated concurrently by the CRUD / import     *)
(* layer.  Every access of an ensure function to the store or to the cache *)
(* directory is one step.                                                  *)
(*                                                                         *)
(* The second half models the format adapters, the import pipeline and the *)
(* export engine (backend/apps/engine): SpecAdapter imports one record of  *)
(* any shape and exports it, SpecImport runs sequences of imports, creates,*)
(* updates and exports of one variant.                                     *)
(***************************************************************************)
EXTENDS Integers, Sequences, FiniteSets, TLC

\* ---------------------------------------------------------------- bounds
MaxOps == 4         \* ensure calls plus store mutations in one behaviour

Workers == {"w1", "w2"}
Names == {"n1"}
Rules == {"r1", "r2"}

\* ------------------------------------------------------- program constants
\* FINGERPRINT_LIB_MAP: the six supported libraries
FINGERPRINT_LIB_MAP ==
    [ehole |-> "ensure_ehole_fingerprint_local",
     goby |-> "ensure_goby_fingerprint_local",
     wappalyzer |-> "ensure_wappalyzer_fingerprint_local",
     fingers |-> "ensure_fingers_fingerprint_local",
     fingerprinthub |-> "ensure_fingerprinthub_fingerprint_local",
     arl |-> "ensure_arl_fingerprint_local"]

Libs == DOMAIN FINGERPRINT_LIB_MAP

\* os.path.join(base_dir, '<lib>.json') / 'arl.yaml'
CachePath(lib) == IF lib = "arl" THEN "arl.yaml"
                  ELSE IF lib = "ehole" THEN "ehole.json"
                  ELSE IF lib = "goby" THEN "goby.json"
                  ELSE IF lib = "wappalyzer" THEN "wappalyzer.json"
                  ELSE IF lib = "fingers" THEN "fingers.json"
                  ELSE "fingerprinthub.json"

VARIABLES
    store,            \* lib -> stored record set (name -> rule)
    seq,              \* lib -> number of mutations applied (version oracle state)
    nmut,             \* mutations so far (bound)
    cache_file,       \* lib -> state of <lib>.json / arl.yaml on disk
    version_file,     \* lib -> state of <lib>.version on disk
    lib,              \* worker -> the library whose ensure function it runs
    pc,               \* worker -> position inside the ensure function
    current_version,  \* worker -> local current_version
    cached_version,   \* worker -> local cached_version
    data,             \* worker -> local data (result of get_export_data)
    ret,              \* worker -> value returned by the last finished call
    calls,            \* ensure calls started so far (bound)
    wrote,            \* history: how far this call's writes went: "none",
                      \*          "open" (data file opened), "data" (export
                      \*          complete in the file), "marker"
    intf,             \* history: since this call started, another process wrote
                      \*          the same files or an I/O error occurred
    mut,              \* history: the library was mutated while this call ran
                      \*          ("in"), only after it ended ("after"), or not
    startHit,         \* history: marker = current token and data file existed
                      \*          when the call started, and no interference since
    prev              \* history: the previous call of this worker returned
                      \*          undisturbed with no mutation since it started
                      \*          ("clean"), with one while it ran ("raced") or
                      \*          with one only after it ended ("stale"), and this
                      \*          call is undisturbed so far; else "other"

\* the import / export side (format adapters, import pipeline, export engine)
VARIABLES
    variant,          \* the library whose adapter and pipeline are exercised
    table,            \* its stored rows: unique key -> normalized record
    request,          \* the input of the last import / create / update call
    result,           \* what that call returned (or the error it raised)
    exported,         \* the last value returned by get_export_data
    nreq              \* calls so far (bound)

adapterVars == <<variant, table, request, result, exported, nreq>>

\* the init_fingerprints command (management/commands/init_fingerprints.py)
VARIABLES
    tables,           \* library -> its stored rows (model.objects of each library)
    item_index,       \* position of Command.handle in DEFAULT_FINGERPRINTS
    initialized,      \* local counter of handle
    skipped,          \* local counter of handle
    failed,           \* local counter of handle
    status,           \* "idle", "running", "finished" (summary written) or
                      \* "crashed" (an exception left handle)
    nruns             \* runs of the command so far (bound)

runVars == <<tables, item_index, initialized, skipped, failed, status, nruns>>

\* get_fingerprint_paths (scan/utils/fingerprint_helpers.py)
VARIABLES
    lib_names,        \* the argument of the call
    lib_index,        \* position of the loop in lib_names
    ensure_func,      \* local ensure_func of the iteration, "none" between two
    paths,            \* local paths: library name -> local path
    trace             \* history: what became of each name handled so far

pathsVars == <<lib_names, lib_index, ensure_func, paths, trace>>

\* merge_engine_configs (scan/utils/config_merger.py)
VARIABLES
    engines,          \* the argument: a list of (engine name, config YAML)
    merged            \* what the call returned or raised

mergeVars == <<engines, merged>>

\* the tools beside the cache and the import / export calls
toolVars == <<runVars, pathsVars, mergeVars>>

vars == <<store, seq, nmut, cache_file, version_file, lib, pc, current_version,
          cached_version, data, ret, calls, wrote, intf, mut, startHit, prev,
          adapterVars, toolVars>>

storeVars == <<store, seq, nmut>>
fileVars == <<cache_file, version_file>>
histVars == <<wrote, intf, mut, startHit, prev>>

\* ------------------------------------------------------------ text helpers
Whitespace == {" ", "\n", "\t"}

RECURSIVE LStrip(_, _)
LStrip(s, chars) ==
    IF s # <<>> /\ Head(s) \in chars THEN LStrip(Tail(s), chars) ELSE s

RECURSIVE RStrip(_, _)
RStrip(s, chars) ==
    IF s # <<>> /\ s[Len(s)] \in chars
    THEN RStrip(SubSeq(s, 1, Len(s) - 1), chars) ELSE s

StripZeros(s) == RStrip(LStrip(s, Whitespace \cup {"0"}), Whitespace \cup {"0"})

\* str.strip()
Strip(s) == RStrip(LStrip(s, Whitespace), Whitespace)

Digit(d) == CASE d = 0 -> "0" [] d = 1 -> "1" [] d = 2 -> "2" [] d = 3 -> "3"
              [] d = 4 -> "4" [] d = 5 -> "5" [] d = 6 -> "6" [] d = 7 -> "7"
              [] d = 8 -> "8" [] OTHER -> "9"

RECURSIVE Decimal(_)
Decimal(n) == IF n < 10 THEN <<Digit(n)>>
              ELSE Append(Decimal(n \div 10), Digit(n % 10))

\* ------------------------------------------------------------------ store
EmptyStore == [k \in {} |-> "r1"]

\* a token derived from the row count alone
RowCountVersion(l) == Decimal(Cardinality(DOMAIN store[l]))

\* VersionOracle.current(lib): a monotonic sequence advanced on every mutation,
\* rendered as text
get_fingerprint_version(l) == Decimal(seq[l])

\* service.get_export_data(): one raw record per stored row
get_export_data(l) == {[name |-> k, rule |-> store[l][k]] : k \in DOMAIN store[l]}

Put(s, k, r) == [x \in DOMAIN s \cup {k} |-> IF x = k THEN r ELSE s[x]]
Drop(s, k) == [x \in DOMAIN s \ {k} |-> s[x]]

\* ------------------------------------------------------------------ files
\* a data file: missing, truncated to length 0, holding part of a document
\* (or a mix of two), or holding a whole export (ver: the store sequence the export was read at)
Absent == [st |-> "absent", content |-> {}, ver |-> 0]
Truncated == [st |-> "empty", content |-> {}, ver |-> 0]
Partial == [st |-> "partial", content |-> {}, ver |-> 0]
Full(d) == [st |-> "full", content |-> d.rows, ver |-> d.ver]

NoMarker == [exists |-> FALSE, text |-> <<>>]
Marker(t) == [exists |-> TRUE, text |-> t]

\* Python's None / a str
None == [some |-> FALSE, val |-> <<>>]
Some(t) == [some |-> TRUE, val |-> t]

NoData == [rows |-> {}, ver |-> 0]

\* os.path.exists(cache_file)
CacheExists(l) == cache_file[l].st # "absent"

\* no import or export call is in progress or was made
AdapterIdle ==
    /\ variant = "none"
    /\ table = EmptyStore
    /\ request = <<>>
    /\ result = <<>>
    /\ exported = <<>>
    /\ nreq = 0

\* the init command was not run
RunIdle ==
    /\ tables = [l \in Libs |-> EmptyStore]
    /\ item_index = 0
    /\ initialized = 0
    /\ skipped = 0
    /\ failed = 0
    /\ status = "idle"
    /\ nruns = 0

NoPaths == [k \in {} |-> ""]

\* get_fingerprint_paths was not called
PathsIdle ==
    /\ lib_names = <<>>
    /\ lib_index = 1
    /\ ensure_func = "none"
    /\ paths = NoPaths
    /\ trace = <<>>

NotMerged == [done |-> FALSE, kind |-> "none", text |-> <<>>, conflicts |-> <<>>]

\* merge_engine_configs was not called
MergeIdle ==
    /\ engines = <<>>
    /\ merged = NotMerged

ToolsIdle == RunIdle /\ PathsIdle /\ MergeIdle

CacheInit ==
    /\ store = [l \in Libs |-> EmptyStore]
    /\ seq = [l \in Libs |-> 0]
    /\ nmut = 0
    /\ cache_file = [l \in Libs |-> Absent]
    /\ version_file = [l \in Libs |-> NoMarker]
    /\ lib \in [Workers -> Libs]
    /\ pc = [w \in Workers |-> "idle"]
    /\ current_version = [w \in Workers |-> <<>>]
    /\ cached_version = [w \in Workers |-> None]
    /\ data = [w \in Workers |-> NoData]
    /\ ret = [w \in Workers |-> ""]
    /\ calls = 0
    /\ wrote = [w \in Workers |-> "none"]
    /\ intf = [w \in Workers |-> FALSE]
    /\ mut = [w \in Workers |-> "no"]
    /\ startHit = [w \in Workers |-> FALSE]
    /\ prev = [w \in Workers |-> "other"]

Init == CacheInit /\ AdapterIdle /\ ToolsIdle

Running(w) == pc[w] \notin {"idle", "done", "raised"}

\* the other workers caching the library of w
Peers(w) == {x \in Workers : x # w /\ lib[x] = lib[w]}

\* --------------------------------------------------------- store mutations
\* a mutation of library l is seen by every worker caching l
NoteMutation(l) ==
    /\ mut' = [w \in Workers |->
                 IF lib[w] # l \/ pc[w] = "idle" THEN mut[w]
                 ELSE IF Running(w) THEN "in"
                 ELSE IF mut[w] = "no" THEN "after"
                 ELSE mut[w]]
    /\ prev' = [w \in Workers |-> IF lib[w] = l /\ Running(w) THEN "other" ELSE prev[w]]

\* every mutation advances the library's version sequence; only libraries that
\* some worker caches are mutated
Mutate(l, s) ==
    /\ nmut + calls < MaxOps
    /\ \E w \in Workers : lib[w] = l
    /\ store' = [store EXCEPT ![l] = s]
    /\ seq' = [seq EXCEPT ![l] = @ + 1]
    /\ nmut' = nmut + 1
    /\ NoteMutation(l)
    /\ UNCHANGED <<fileVars, lib, adapterVars, toolVars, pc, current_version, cached_version, data, ret,
                   calls, wrote, intf, startHit>>

\* bulk_upsert writing one row (insert, or overwrite by unique key)
BulkUpsert(l, k, r) == Mutate(l, Put(store[l], k, r))

\* single-record update: same row count, different rule
UpdateRule(l, k, r) ==
    /\ k \in DOMAIN store[l]
    /\ store[l][k] # r
    /\ Mutate(l, Put(store[l], k, r))

\* delete of one row
DeleteRow(l, k) ==
    /\ k \in DOMAIN store[l]
    /\ Mutate(l, Drop(store[l], k))

\* ------------------------------------------------ ensure_<lib>_fingerprint_local
PrevOutcome(w) ==
    IF pc[w] # "done" \/ intf[w] THEN "other"
    ELSE IF mut[w] = "in" THEN "raced"
    ELSE IF mut[w] = "after" THEN "stale"
    ELSE "clean"

\* current_version = service.get_fingerprint_version()
Start(w) ==
    /\ pc[w] \in {"idle", "done", "raised"}
    /\ nmut + calls < MaxOps
    /\ calls' = calls + 1
    /\ current_version' = [current_version EXCEPT ![w] = get_fingerprint_version(lib[w])]
    /\ cached_version' = [cached_version EXCEPT ![w] = None]
    /\ data' = [data EXCEPT ![w] = NoData]
    /\ pc' = [pc EXCEPT ![w] = "check"]
    /\ prev' = [prev EXCEPT ![w] = PrevOutcome(w)]
    /\ startHit' = [startHit EXCEPT ![w] =
                      /\ version_file[lib[w]] = Marker(get_fingerprint_version(lib[w]))
                      /\ CacheExists(lib[w])]
    /\ wrote' = [wrote EXCEPT ![w] = "none"]
    /\ intf' = [intf EXCEPT ![w] = FALSE]
    /\ mut' = [mut EXCEPT ![w] = "no"]
    /\ UNCHANGED <<storeVars, fileVars, lib, adapterVars, toolVars, ret>>

\* if os.path.exists(version_file): cached_version = f.read().strip()
ReadVersion(l) ==
    IF version_file[l].exists THEN Some(Strip(version_file[l].text)) ELSE None

\* the comparison with the version compared the wrong way round
CacheValidInverted(cached, current, l) ==
    /\ cached.some
    /\ cached.val # current
    /\ CacheExists(l)

\* the existence test the wrong way round
CacheValidNoFile(cached, current, l) ==
    /\ cached = Some(current)
    /\ ~CacheExists(l)

\* the comparison with the version left out
CacheValidAnyVersion(cached, current, l) ==
    /\ cached.some
    /\ CacheExists(l)

\* cached_version == current_version and os.path.exists(cache_file)
CacheValid(cached, current, l) ==
    /\ cached = Some(current)
    /\ CacheExists(l)

\* the version file is read and the cache is checked; a hit returns cache_file
CheckCache(w) ==
    /\ pc[w] = "check"
    /\ cached_version' = [cached_version EXCEPT ![w] = ReadVersion(lib[w])]
    /\ IF CacheValid(ReadVersion(lib[w]), current_version[w], lib[w])
       THEN /\ pc' = [pc EXCEPT ![w] = "done"]
            /\ ret' = [ret EXCEPT ![w] = CachePath(lib[w])]
       ELSE /\ pc' = [pc EXCEPT ![w] = "export"]
            /\ ret' = ret
    /\ UNCHANGED <<storeVars, fileVars, lib, adapterVars, toolVars, current_version, data, calls, histVars>>

\* data = service.get_export_data()
GetExportData(w) ==
    /\ pc[w] = "export"
    /\ data' = [data EXCEPT ![w] = [rows |-> get_export_data(lib[w]), ver |-> seq[lib[w]]]]
    /\ pc' = [pc EXCEPT ![w] = "open"]
    /\ UNCHANGED <<storeVars, fileVars, lib, adapterVars, toolVars, current_version, cached_version, ret,
                   calls, histVars>>

\* a write of w to its library's files: recorded for w, and an interference for
\* every other worker caching the same library
NoteWrite(w, progress) ==
    /\ wrote' = [wrote EXCEPT ![w] = progress]
    /\ intf' = [x \in Workers |-> x \in Peers(w) \/ intf[x]]
    /\ startHit' = [x \in Workers |-> x \notin Peers(w) /\ startHit[x]]
    /\ prev' = [x \in Workers |-> IF x \in Peers(w) THEN "other" ELSE prev[x]]
    /\ UNCHANGED mut

\* every library's export goes to the same file
OpenCacheFile_Shared(w) ==
    /\ pc[w] = "open"
    /\ cache_file' = [cache_file EXCEPT !["ehole"] = Truncated]
    /\ pc' = [pc EXCEPT ![w] = "dump"]
    /\ NoteWrite(w, "open")
    /\ UNCHANGED <<storeVars, version_file, lib, adapterVars, toolVars, current_version,
                   cached_version, data, ret, calls>>

\* The six ensure functions differ in the file names only; ehole writes its
\* data file through service.export_to_file(cache_file), modelled like the
\* inline open/dump of the other five (and of export_to_yaml).
\* open(cache_file, 'w'): creates the file or truncates it in place
OpenCacheFile(w) ==
    /\ pc[w] = "open"
    /\ cache_file' = [cache_file EXCEPT ![lib[w]] = Truncated]
    /\ pc' = [pc EXCEPT ![w] = "dump"]
    /\ NoteWrite(w, "open")
    /\ UNCHANGED <<storeVars, version_file, lib, adapterVars, toolVars, current_version, cached_version,
                   data, ret, calls>>

\* json.dump / yaml.dump: the buffer is flushed while the document is not complete
DumpChunk(w) ==
    /\ pc[w] = "dump"
    /\ cache_file' = [cache_file EXCEPT ![lib[w]] = Partial]
    /\ pc' = [pc EXCEPT ![w] = "close"]
    /\ NoteWrite(w, "open")
    /\ UNCHANGED <<storeVars, version_file, lib, adapterVars, toolVars, current_version, cached_version,
                   data, ret, calls>>

\* another writer put a longer document into the file after this writer
\* truncated it: this writer's document, written from offset 0, leaves the
\* other's tail behind it
Overlap(w) ==
    /\ cache_file[lib[w]].st = "full"
    /\ Cardinality(cache_file[lib[w]].content) > Cardinality(data[w].rows)

\* end of the with block: the rest of the document reaches the file
CloseCacheFile(w) ==
    /\ pc[w] \in {"dump", "close"}
    /\ cache_file' = [cache_file EXCEPT ![lib[w]] =
                        IF Overlap(w) THEN Partial ELSE Full(data[w])]
    /\ pc' = [pc EXCEPT ![w] = "write_version"]
    /\ NoteWrite(w, "data")
    /\ UNCHANGED <<storeVars, version_file, lib, adapterVars, toolVars, current_version, cached_version,
                   data, ret, calls>>

\* the version read again when the marker is written
MarkerTextReread(w) == get_fingerprint_version(lib[w])

\* the version that was cached before
MarkerTextCached(w) == cached_version[w].val

\* f.write(current_version)
MarkerText(w) == current_version[w]

\* with open(version_file, 'w') as f: f.write(current_version); return cache_file
WriteVersionFile(w) ==
    /\ pc[w] = "write_version"
    /\ version_file' = [version_file EXCEPT ![lib[w]] = Marker(MarkerText(w))]
    /\ pc' = [pc EXCEPT ![w] = "done"]
    /\ ret' = [ret EXCEPT ![w] = CachePath(lib[w])]
    /\ NoteWrite(w, "marker")
    /\ UNCHANGED <<storeVars, cache_file, lib, adapterVars, toolVars, current_version, cached_version,
                   data, calls>>

Ensure(w) ==
    \/ Start(w)
    \/ CheckCache(w)
    \/ GetExportData(w)
    \/ OpenCacheFile(w)
    \/ DumpChunk(w)
    \/ CloseCacheFile(w)
    \/ WriteVersionFile(w)

StoreMutation ==
    \E l \in Libs, k \in Names, r \in Rules :
        \/ BulkUpsert(l, k, r)
        \/ UpdateRule(l, k, r)
        \/ DeleteRow(l, k)

Next ==
    \/ \E w \in Workers : Ensure(w)
    \/ StoreMutation

Spec == Init /\ [][Next]_vars


\* ------------------------------------------------------------ I/O errors
\* an OSError in a call of w: recorded for w, and for the other workers caching
\* the same library
NoteFault(w) ==
    /\ intf' = [x \in Workers |-> x = w \/ x \in Peers(w) \/ intf[x]]
    /\ startHit' = [x \in Workers |-> x # w /\ x \notin Peers(w) /\ startHit[x]]
    /\ prev' = [x \in Workers |-> IF x = w \/ x \in Peers(w) THEN "other" ELSE prev[x]]
    /\ UNCHANGED <<wrote, mut>>

\* except OSError while reading the version file: cached_version stays None
ReadVersionFail(w) ==
    /\ pc[w] = "check"
    /\ version_file[lib[w]].exists
    /\ cached_version' = [cached_version EXCEPT ![w] = None]
    /\ pc' = [pc EXCEPT ![w] = "export"]
    /\ NoteFault(w)
    /\ UNCHANGED <<storeVars, fileVars, lib, adapterVars, toolVars, current_version, data, ret, calls>>

\* open(cache_file, 'w') raises (permission denied): nothing catches it
OpenCacheFileFail(w) ==
    /\ pc[w] = "open"
    /\ pc' = [pc EXCEPT ![w] = "raised"]
    /\ NoteFault(w)
    /\ UNCHANGED <<storeVars, fileVars, lib, adapterVars, toolVars, current_version, cached_version, data,
                   ret, calls>>

\* json.dump / yaml.dump or the close raises (disk full): nothing catches it, the
\* file stays as far as it was written
DumpFail(w) ==
    /\ pc[w] \in {"dump", "close"}
    /\ pc' = [pc EXCEPT ![w] = "raised"]
    /\ NoteFault(w)
    /\ UNCHANGED <<storeVars, fileVars, lib, adapterVars, toolVars, current_version, cached_version, data,
                   ret, calls>>

\* except OSError while writing the version file: logged, cache_file is returned;
\* the open failed (file untouched) or the write failed (file truncated)
WriteVersionFileFail(w) ==
    /\ pc[w] = "write_version"
    /\ \/ version_file' = version_file
       \/ version_file' = [version_file EXCEPT ![lib[w]] = Marker(<<>>)]
    /\ pc' = [pc EXCEPT ![w] = "done"]
    /\ ret' = [ret EXCEPT ![w] = CachePath(lib[w])]
    /\ NoteFault(w)
    /\ UNCHANGED <<storeVars, cache_file, lib, adapterVars, toolVars, current_version, cached_version,
                   data, calls>>

Fault(w) ==
    \/ ReadVersionFail(w)
    \/ OpenCacheFileFail(w)
    \/ DumpFail(w)
    \/ WriteVersionFileFail(w)

NextIO ==
    \/ \E w \in Workers : Ensure(w)
    \/ StoreMutation
    \/ \E w \in Workers : Fault(w)

\* the cache with I/O errors
SpecIO == Init /\ [][NextIO]_vars

\* ------------------------------------------------------------------ claims
\* the cache of library l holds the current export under the current token
CacheCurrent(l) ==
    /\ cache_file[l] = Full([rows |-> get_export_data(l), ver |-> seq[l]])
    /\ version_file[l] = Marker(get_fingerprint_version(l))

\* C1: a call that starts with the on-disk marker equal to the store's current
\* token and with the data file present, and that no other process disturbs,
\* returns the data file's path having exported nothing and written neither file.
C1_CacheHitNoWork ==
    \A w \in Workers :
        (pc[w] = "done" /\ startHit[w]) =>
            /\ wrote[w] = "none"
            /\ data[w] = NoData
            /\ ret[w] = CachePath(lib[w])

C1_Witness ==
    \E w \in Workers :
        /\ pc[w] = "done"
        /\ startHit[w]
        /\ wrote[w] = "none"
        /\ cache_file[lib[w]].st = "full"

\* C2: of two calls in a row by one worker, with no store mutation and no other
\* writer from the start of the first to the end of the second, the second
\* returns the same path having exported nothing and written neither file.
C2_Idempotent ==
    \A w \in Workers :
        (pc[w] = "done" /\ prev[w] = "clean") =>
            /\ wrote[w] = "none"
            /\ data[w] = NoData
            /\ ret[w] = CachePath(lib[w])

C2_Witness ==
    \E w \in Workers :
        /\ pc[w] = "done"
        /\ prev[w] = "clean"
        /\ wrote[w] = "none"
        /\ CacheCurrent(lib[w])
        /\ seq[lib[w]] > 0

\* C3: the version file changes only in the marker write of a call whose export
\* is already complete in the data file, and it then holds exactly the token
\* that call read at its start; a call returns from the check itself only on a
\* hit, and otherwise only with that marker write.
C3_MissProtocol ==
    [][/\ \A l \in Libs :
            version_file'[l] # version_file[l] =>
                \E w \in Workers :
                    /\ lib[w] = l
                    /\ wrote[w] = "data"
                    /\ wrote'[w] = "marker"
                    /\ version_file'[l] = Marker(current_version[w])
       /\ \A w \in Workers :
            /\ (pc[w] = "check" /\ pc'[w] = "done") =>
                   CacheValid(ReadVersion(lib[w]), current_version[w], lib[w])
            /\ (pc[w] = "check" /\ pc'[w] \notin {"check", "done"}) =>
                   /\ ~CacheValid(ReadVersion(lib[w]), current_version[w], lib[w])
                   /\ pc'[w] = "export"
            /\ (pc[w] \notin {"check", "done"} /\ pc'[w] = "done") =>
                   /\ wrote[w] = "data"
                   /\ wrote'[w] = "marker"
                   /\ version_file'[lib[w]] = Marker(current_version[w])
                   /\ ret'[w] = CachePath(lib[w])]_vars

C3_Witness ==
    \E w \in Workers :
        /\ pc[w] = "done"
        /\ wrote[w] = "marker"
        /\ mut[w] = "in"
        /\ ~intf[w]
        /\ version_file[lib[w]] = Marker(current_version[w])
        /\ current_version[w] # get_fingerprint_version(lib[w])
        /\ cache_file[lib[w]].st = "full"

\* C4: the data file a reader can open is at every instant either missing or a
\* whole export, never empty or cut short.
C4_AtomicReplace ==
    \A l \in Libs : cache_file[l].st \in {"absent", "full"}

\* C5: whenever no ensure call for a library is in progress, its marker equals
\* the store's current token and its data file exists, the data file holds
\* exactly the current export.
C5_CacheValidity ==
    \A l \in Libs :
        (/\ \A w \in Workers : lib[w] = l => ~Running(w)
         /\ version_file[l] = Marker(get_fingerprint_version(l))
         /\ CacheExists(l))
        => (cache_file[l].st = "full" /\ cache_file[l].content = get_export_data(l))

\* C6: whenever the data file holds a whole export and the marker exists, the
\* marker's token is the token of the store version the export was read at
\* (neither of the two is newer than the other).
C6_PairConsistent ==
    \A l \in Libs :
        (cache_file[l].st = "full" /\ version_file[l].exists)
        => version_file[l].text = Decimal(cache_file[l].ver)

\* C7: after a call that raced with a store mutation, the worker's next call,
\* finished with no further mutation and no other writer, leaves the data file
\* equal to the current export and the marker equal to the current token.
C7_SelfCorrect ==
    \A w \in Workers :
        (pc[w] = "done" /\ prev[w] = "raced" /\ mut[w] = "no" /\ ~intf[w])
        => CacheCurrent(lib[w])

C7_Witness ==
    \E w \in Workers :
        /\ pc[w] = "done"
        /\ prev[w] = "raced"
        /\ mut[w] = "no"
        /\ ~intf[w]
        /\ wrote[w] = "marker"
        /\ CacheCurrent(lib[w])

\* C8: a call ends in an error only when no whole cached data file exists (with
\* one, its path is returned as a stale fallback), and a call that returns a
\* path has a data file.
C8_StaleFallback ==
    \A w \in Workers :
        /\ pc[w] = "raised" => cache_file[lib[w]].st # "full"
        /\ pc[w] = "done" => CacheExists(lib[w])

MaxReq == 2         \* import / create / update / export calls in one behaviour
MaxBatch == 2       \* records in one imported sequence

\* ------------------------------------------------------ Python values
\* a decoded JSON / YAML value: its type, its text or elements, its members
NoFields == [k \in {} |-> 0]
PyStr(s) == [t |-> "str", v |-> s, f |-> NoFields]
PyInt(digits) == [t |-> "int", v |-> digits, f |-> NoFields]
PyBool(b) == [t |-> "bool", v |-> IF b THEN <<"T">> ELSE <<"F">>, f |-> NoFields]
PyNone == [t |-> "none", v |-> <<>>, f |-> NoFields]
PyList(elems) == [t |-> "list", v |-> elems, f |-> NoFields]
PyDict(members) == [t |-> "dict", v |-> <<>>, f |-> members]

\* bool(x)
Truthy(x) ==
    CASE x.t = "str" -> x.v # <<>>
      [] x.t = "int" -> x.v # <<"0">>
      [] x.t = "bool" -> x.v = <<"T">>
      [] x.t = "none" -> FALSE
      [] x.t = "list" -> x.v # <<>>
      [] OTHER -> DOMAIN x.f # {}

\* str(x) of a scalar
ToStr(x) ==
    CASE x.t = "str" -> x.v
      [] x.t = "int" -> x.v
      [] x.t = "bool" -> IF x.v = <<"T">> THEN <<"T", "r", "u", "e">>
                         ELSE <<"F", "a", "l", "s", "e">>
      [] x.t = "none" -> <<"N", "o", "n", "e">>
      [] OTHER -> <<"[", "]">>

\* isinstance(x, list) / isinstance(x, dict)
IsList(x) == x.t = "list"
IsDict(x) == x.t = "dict"

\* d.get(key, default) on the members of a dict
Get(d, key, default) == IF key \in DOMAIN d THEN d[key] ELSE default

\* d with the given keys only
Restrict(d, keys) == [k \in DOMAIN d \cap keys |-> d[k]]

\* {**a, **b}
Merge(a, b) == [k \in DOMAIN a \cup DOMAIN b |-> IF k \in DOMAIN b THEN b[k] ELSE a[k]]

\* bool(name): the value is not tested after trimming
NonBlank_Untrimmed(x) == Truthy(x)

\* bool(name and str(name).strip())
NonBlank(x) == Truthy(x) /\ Strip(ToStr(x)) # <<>>

\* ------------------------------------------------------------ Fingers
Fingers_validate_fingerprint(item) ==
    /\ NonBlank(Get(item, "name", PyStr(<<>>)))
    /\ IsList(Get(item, "rule", PyNone))

Fingers_to_model_data(item) ==
    [name |-> PyStr(Strip(ToStr(Get(item, "name", PyStr(<<>>))))),
     link |-> Get(item, "link", PyStr(<<>>)),
     rule |-> Get(item, "rule", PyList(<<>>)),
     tag |-> Get(item, "tag", PyList(<<>>)),
     focus |-> Get(item, "focus", PyBool(FALSE)),
     default_port |-> Get(item, "default_port", PyList(<<>>))]

\* no key is omitted
Fingers_omitted_None(fp) == {}

\* the keys of a Fingers row that get_export_data omits when empty
Fingers_omitted(fp) ==
    {k \in {"focus", "default_port"} : ~Truthy(fp[k])}

\* one item of get_export_data
Fingers_export_item(fp) ==
    Restrict(fp, {"name", "link", "rule", "tag", "focus", "default_port"}
                 \ Fingers_omitted(fp))

\* ------------------------------------------------------ FingerPrintHub
\* info.get('name') is not looked at when info is not a dict
FingerPrintHub_validate_fingerprint_AnyInfo(item) ==
    /\ NonBlank(Get(item, "id", PyStr(<<>>)))
    /\ IsDict(Get(item, "info", PyDict(NoFields))) =>
          Truthy(Get(Get(item, "info", PyDict(NoFields)).f, "name", PyNone))
    /\ IsList(Get(item, "http", PyNone))

FingerPrintHub_validate_fingerprint(item) ==
    /\ NonBlank(Get(item, "id", PyStr(<<>>)))
    /\ IsDict(Get(item, "info", PyDict(NoFields)))
    /\ Truthy(Get(Get(item, "info", PyDict(NoFields)).f, "name", PyNone))
    /\ IsList(Get(item, "http", PyNone))

FingerPrintHub_to_model_data(item) ==
    LET info == Get(item, "info", PyDict(NoFields)).f
    IN [fp_id |-> PyStr(Strip(ToStr(Get(item, "id", PyStr(<<>>))))),
        name |-> PyStr(Strip(ToStr(Get(info, "name", PyStr(<<>>))))),
        author |-> Get(info, "author", PyStr(<<>>)),
        tags |-> Get(info, "tags", PyStr(<<>>)),
        severity |-> Get(info, "severity", PyStr(<<"i", "n", "f", "o">>)),
        metadata |-> Get(info, "metadata", PyDict(NoFields)),
        http |-> Get(item, "http", PyList(<<>>)),
        source_file |-> Get(item, "_source_file", PyStr(<<>>))]

\* one item of get_export_data
FingerPrintHub_export_item(fp) ==
    LET item == [id |-> fp.fp_id,
                 info |-> PyDict([name |-> fp.name,
                                  author |-> fp.author,
                                  tags |-> fp.tags,
                                  severity |-> fp.severity,
                                  metadata |-> fp.metadata]),
                 http |-> fp.http]
    IN IF Truthy(fp.source_file)
       THEN Merge(item, [_source_file |-> fp.source_file])
       ELSE item

\* --------------------------------------------------------- Wappalyzer
Wappalyzer_validate_fingerprint(item) ==
    NonBlank(Get(item, "name", PyStr(<<>>)))

\* every field read under its model name
Wappalyzer_to_model_data_SnakeCase(item) ==
    [name |-> PyStr(Strip(ToStr(Get(item, "name", PyStr(<<>>))))),
     cats |-> Get(item, "cats", PyList(<<>>)),
     cookies |-> Get(item, "cookies", PyDict(NoFields)),
     headers |-> Get(item, "headers", PyDict(NoFields)),
     script_src |-> Get(item, "script_src", PyList(<<>>)),
     js |-> Get(item, "js", PyList(<<>>)),
     implies |-> Get(item, "implies", PyList(<<>>)),
     meta |-> Get(item, "meta", PyDict(NoFields)),
     html |-> Get(item, "html", PyList(<<>>)),
     description |-> Get(item, "description", PyStr(<<>>)),
     website |-> Get(item, "website", PyStr(<<>>)),
     cpe |-> Get(item, "cpe", PyStr(<<>>))]

Wappalyzer_to_model_data(item) ==
    [name |-> PyStr(Strip(ToStr(Get(item, "name", PyStr(<<>>))))),
     cats |-> Get(item, "cats", PyList(<<>>)),
     cookies |-> Get(item, "cookies", PyDict(NoFields)),
     headers |-> Get(item, "headers", PyDict(NoFields)),
     script_src |-> Get(item, "scriptSrc", PyList(<<>>)),
     js |-> Get(item, "js", PyList(<<>>)),
     implies |-> Get(item, "implies", PyList(<<>>)),
     meta |-> Get(item, "meta", PyDict(NoFields)),
     html |-> Get(item, "html", PyList(<<>>)),
     description |-> Get(item, "description", PyStr(<<>>)),
     website |-> Get(item, "website", PyStr(<<>>)),
     cpe |-> Get(item, "cpe", PyStr(<<>>))]

\* the model field of an external attribute name
Wappalyzer_model_field(key) == IF key = "scriptSrc" THEN "script_src" ELSE key

Wappalyzer_attributes ==
    {"cats", "cookies", "headers", "scriptSrc", "js", "implies", "meta", "html",
     "description", "website", "cpe"}

\* app_data of one row in get_export_data
Wappalyzer_app_data(fp) ==
    [k \in {a \in Wappalyzer_attributes : Truthy(fp[Wappalyzer_model_field(a)])} |->
        fp[Wappalyzer_model_field(k)]]

\* --------------------------------------------------------------- Goby
\* the logic is not required
Goby_validate_fingerprint_NoLogic(item) ==
    /\ NonBlank(Get(item, "name", PyStr(<<>>)))
    /\ IsList(Get(item, "rule", PyNone))

Goby_validate_fingerprint(item) ==
    /\ NonBlank(Get(item, "name", PyStr(<<>>)))
    /\ Truthy(Get(item, "logic", PyStr(<<>>)))
    /\ IsList(Get(item, "rule", PyNone))

Goby_to_model_data(item) ==
    [name |-> PyStr(Strip(ToStr(Get(item, "name", PyStr(<<>>))))),
     logic |-> Get(item, "logic", PyStr(<<>>)),
     rule |-> Get(item, "rule", PyList(<<>>))]

\* the logic left out of the export
Goby_export_item_NoLogic(fp) == [name |-> fp.name, rule |-> fp.rule]

Goby_export_item(fp) == [name |-> fp.name, logic |-> fp.logic, rule |-> fp.rule]

\* ---------------------------------------------------------------- ARL
ARL_validate_fingerprint(item) ==
    /\ NonBlank(Get(item, "name", PyStr(<<>>)))
    /\ NonBlank(Get(item, "rule", PyStr(<<>>)))

ARL_to_model_data(item) ==
    [name |-> PyStr(Strip(ToStr(Get(item, "name", PyStr(<<>>))))),
     rule |-> PyStr(Strip(ToStr(Get(item, "rule", PyStr(<<>>)))))]

ARL_export_item(fp) == [name |-> fp.name, rule |-> fp.rule]

\* -------------------------------------------------------------- EHole
\* (services/fingerprints/ehole.py: unique key name, required rule)
Ehole_validate_fingerprint(item) ==
    /\ NonBlank(Get(item, "name", PyStr(<<>>)))
    /\ Truthy(Get(item, "rule", PyStr(<<>>)))

Ehole_to_model_data(item) ==
    [name |-> PyStr(Strip(ToStr(Get(item, "name", PyStr(<<>>))))),
     rule |-> Get(item, "rule", PyStr(<<>>))]

\* ----------------------------------------------------------- dispatch
\* the adapters whose service class is in the source tree
Variants == {"goby", "wappalyzer", "fingers", "fingerprinthub", "arl"}

validate_fingerprint(v, item) ==
    CASE v = "goby" -> Goby_validate_fingerprint(item)
      [] v = "wappalyzer" -> Wappalyzer_validate_fingerprint(item)
      [] v = "fingers" -> Fingers_validate_fingerprint(item)
      [] v = "fingerprinthub" -> FingerPrintHub_validate_fingerprint(item)
      [] v = "ehole" -> Ehole_validate_fingerprint(item)
      [] OTHER -> ARL_validate_fingerprint(item)

to_model_data(v, item) ==
    CASE v = "goby" -> Goby_to_model_data(item)
      [] v = "wappalyzer" -> Wappalyzer_to_model_data(item)
      [] v = "fingers" -> Fingers_to_model_data(item)
      [] v = "fingerprinthub" -> FingerPrintHub_to_model_data(item)
      [] v = "ehole" -> Ehole_to_model_data(item)
      [] OTHER -> ARL_to_model_data(item)

\* x.get(...) raises AttributeError unless x is a dict
GetRaises(x) == ~IsDict(x)

\* validate_fingerprint(item) raises: of the five adapters only FingerPrintHub's
\* calls a method of a field's value, info.get('name'), and only once the id
\* has passed and isinstance(info, dict) has held
validate_fingerprint_raises(v, item) ==
    /\ v = "fingerprinthub"
    /\ NonBlank(Get(item, "id", PyStr(<<>>)))
    /\ IsDict(Get(item, "info", PyDict(NoFields)))
    /\ GetRaises(Get(item, "info", PyDict(NoFields)))

\* to_model_data(item) raises: FingerPrintHub's reads info.get(...) without a
\* type test of its own
to_model_data_raises(v, item) ==
    /\ v = "fingerprinthub"
    /\ GetRaises(Get(item, "info", PyDict(NoFields)))

\* the unique identifying field of a variant's model
UniqueField(v) == IF v = "fingerprinthub" THEN "fp_id" ELSE "name"

\* the query leaves one row out
ExportData_RowMissing(v, t) ==
    LET rows == IF DOMAIN t = {} THEN {} ELSE DOMAIN t \ {CHOOSE x \in DOMAIN t : TRUE}
    IN CASE v = "goby" -> {Goby_export_item(t[k]) : k \in rows}
         [] v = "fingers" -> {Fingers_export_item(t[k]) : k \in rows}
         [] v = "fingerprinthub" -> {FingerPrintHub_export_item(t[k]) : k \in rows}
         [] v = "arl" -> {ARL_export_item(t[k]) : k \in rows}
         [] OTHER -> [apps |-> [n \in {t[k].name.v : k \in rows} |->
                        Wappalyzer_app_data(t[CHOOSE k \in rows : t[k].name.v = n])]]

\* service.get_export_data() of variant v over the rows t: a list (its order is
\* the store's) for four variants, {"apps": {...}} for Wappalyzer
ExportData(v, t) ==
    CASE v = "goby" -> {Goby_export_item(t[k]) : k \in DOMAIN t}
      [] v = "fingers" -> {Fingers_export_item(t[k]) : k \in DOMAIN t}
      [] v = "fingerprinthub" -> {FingerPrintHub_export_item(t[k]) : k \in DOMAIN t}
      [] v = "arl" -> {ARL_export_item(t[k]) : k \in DOMAIN t}
      [] OTHER -> [apps |-> [n \in {t[k].name.v : k \in DOMAIN t} |->
                     Wappalyzer_app_data(t[CHOOSE k \in DOMAIN t : t[k].name.v = n])]]

\* ------------------------------------------------------- raw records
\* the inputs: every combination of absent, empty, blank, padded and plain
\* values of each external field
Missing == [t |-> "missing", v |-> <<>>, f |-> NoFields]

\* the members of a dict given with a value or Missing for every key
Present(r) == [k \in {x \in DOMAIN r : r[x] # Missing} |-> r[k]]

KeyValues ==
    {Missing, PyNone, PyStr(<<>>), PyStr(<<" ">>), PyStr(<<"a">>), PyStr(<<" ", "a">>),
     PyStr(<<"b", " ">>), PyInt(<<"7">>), PyInt(<<"0">>)}

ListValues(e) == {Missing, PyList(<<>>), PyList(<<e>>), PyStr(<<e>>)}
TextValues(e) == {Missing, PyStr(<<>>), PyStr(<<e>>)}
DictValues(e) == {Missing, PyDict(NoFields), PyDict([k \in {e} |-> PyStr(<<e>>)])}
BoolValues == {Missing, PyBool(FALSE), PyBool(TRUE)}
ExtraValues == {Missing, PyStr(<<"x">>)}

GobyRecords ==
    {Present(r) : r \in [name : KeyValues,
                         logic : {Missing, PyStr(<<>>), PyStr(<<" ">>), PyStr(<<"o">>)},
                         rule : ListValues("r"),
                         extra : ExtraValues]}

ARLRecords ==
    {Present(r) : r \in [name : KeyValues,
                         rule : TextValues("r") \cup
                                {PyStr(<<" ">>), PyStr(<<" ", "r">>), PyInt(<<"7">>)},
                         extra : ExtraValues]}

FingersRecords ==
    {Present(r) : r \in [name : KeyValues,
                         rule : ListValues("r"),
                         link : TextValues("l"),
                         tag : {Missing, PyList(<<>>), PyList(<<"t">>)},
                         focus : BoolValues,
                         default_port : {Missing, PyList(<<>>), PyList(<<"p">>)}]}

InfoValues ==
    {Missing, PyStr(<<"x">>)} \cup
    {PyDict(Present(r)) :
        r \in [name : {Missing, PyStr(<<>>), PyStr(<<" ">>), PyStr(<<"n">>),
                       PyStr(<<" ", "n">>)},
               author : TextValues("u"),
               tags : TextValues("t"),
               severity : {Missing, PyStr(<<"i", "n", "f", "o">>), PyStr(<<"h">>)},
               metadata : DictValues("m")]}

FingerPrintHubRecords ==
    {Present([id |-> r.id, info |-> r.info, http |-> r.http,
              _source_file |-> r.source_file]) :
        r \in [id : {Missing, PyStr(<<>>), PyStr(<<" ">>), PyStr(<<"a">>),
                     PyStr(<<" ", "a">>)},
               info : InfoValues,
               http : ListValues("h"),
               source_file : TextValues("s")]}

\* the attributes of one Wappalyzer app: each of the eleven absent or with a
\* value, four of them (a list, a dict, the renamed one, a text) also empty
WappalyzerAttrs ==
    {Present(r) : r \in [cats : {Missing, PyList(<<>>), PyList(<<"1">>)},
                         cookies : DictValues("c"),
                         headers : {Missing, PyDict([h |-> PyStr(<<"h">>)])},
                         scriptSrc : {Missing, PyList(<<>>), PyList(<<"s">>)},
                         js : {Missing, PyList(<<"j">>)},
                         implies : {Missing, PyList(<<"i">>)},
                         meta : {Missing, PyDict([m |-> PyStr(<<"m">>)])},
                         html : {Missing, PyList(<<"w">>)},
                         description : TextValues("d"),
                         website : {Missing, PyStr(<<"u">>)},
                         cpe : {Missing, PyStr(<<"e">>)}]}

\* the keys of the apps object
AppKeys == {<<>>, <<" ">>, <<"a">>, <<" ", "a">>, <<"b", " ">>}

\* ---------------------------------------------------- import pipeline
NoResult == [kind |-> "none", created |-> 0, failed |-> 0, detail |-> "none"]
Counts(c, f) == [kind |-> "counts", created |-> c, failed |-> f, detail |-> "none"]
Raised(exc, why) == [kind |-> exc, created |-> 0, failed |-> 0, detail |-> why]
\* the init command reports a library it did not import and goes on
Reported(why) == [kind |-> "reported", created |-> 0, failed |-> 0, detail |-> why]

NoRequest == [op |-> "none", fname |-> "none", doc |-> PyNone]
Request(op, fname, doc) == [op |-> op, fname |-> fname, doc |-> doc]

\* a decoded document that is a dict with its keys in file order
PyObject(keys, members) == [t |-> "dict", v |-> keys, f |-> members]

\* a document that json.load / yaml.safe_load cannot parse
Malformed == [t |-> "malformed", v |-> <<>>, f |-> NoFields]

RECURSIVE SomeOrder(_)
SomeOrder(S) == IF S = {} THEN <<>>
                ELSE LET x == CHOOSE y \in S : TRUE IN <<x>> \o SomeOrder(S \ {x})

\* d.items() in the dict's order
Keys(d) == IF d.v # <<>> THEN d.v ELSE SomeOrder(DOMAIN d.f)

RECURSIVE BulkUpsertRows(_, _, _)
\* bulk_upsert: each staged row written under its unique key, the last one wins
BulkUpsertRows(t, staged, field) ==
    IF staged = <<>> THEN t
    ELSE BulkUpsertRows(Put(t, Head(staged)[field].v, Head(staged)), Tail(staged), field)

RECURSIVE Staged(_, _)
\* the valid records of the sequence, normalized, in order
Staged(v, items) ==
    IF items = <<>> THEN <<>>
    ELSE IF validate_fingerprint(v, Head(items).f)
         THEN <<to_model_data(v, Head(items).f)>> \o Staged(v, Tail(items))
         ELSE Staged(v, Tail(items))

\* service.batch_create_fingerprints(items): validate each record, count the
\* invalid ones and go on, write the valid ones in one bulk upsert
batch_create_fingerprints(v, t, items) ==
    LET staged == Staged(v, items)
    IN [table |-> BulkUpsertRows(t, staged, UniqueField(v)),
        result |-> Counts(Len(staged), Len(items) - Len(staged))]

\* DEFAULT_FINGERPRINTS[...]["data_key"]
DataKey(v) ==
    IF v = "wappalyzer" THEN "apps" ELSE IF v = "ehole" THEN "fingerprint" ELSE "None"

\* {"name": name, **data} if isinstance(data, dict) else {"name": name}
FlattenEntry(name, entry) ==
    IF IsDict(entry) THEN PyDict(Merge([name |-> PyStr(name)], entry.f))
    ELSE PyDict([name |-> PyStr(name)])

\* the target of Command._extract_fingerprints
ExtractTarget(json_data, data_key) ==
    IF data_key = "None" THEN json_data
    ELSE IF data_key # "apps" THEN Get(json_data.f, data_key, PyList(<<>>))
    ELSE IF Truthy(Get(json_data.f, "apps", PyNone)) THEN json_data.f["apps"]
    ELSE IF Truthy(Get(json_data.f, "technologies", PyNone))
         THEN json_data.f["technologies"]
    ELSE PyDict(NoFields)

\* Command._extract_fingerprints(json_data, data_key, fp_type)
extract_fingerprints(json_data, data_key) ==
    LET target == ExtractTarget(json_data, data_key)
    IN IF IsList(target) THEN target.v
       ELSE IF IsDict(target)
            THEN [i \in 1..Len(Keys(target)) |->
                     FlattenEntry(Keys(target)[i], target.f[Keys(target)[i]])]
       ELSE <<>>

\* ------------------------------------------------- inputs of the calls
\* the identifying keys tried in sequences of calls
SampleKeys == {<<" ">>, <<"a">>, <<" ", "a">>, <<"b", " ">>}

\* a well-formed record of each variant without its identifying key
SampleBody(v) ==
    CASE v = "goby" -> [logic |-> PyStr(<<"o">>), rule |-> PyList(<<"r">>)]
      [] v = "wappalyzer" -> [cats |-> PyList(<<"1">>), scriptSrc |-> PyList(<<"s">>)]
      [] v = "fingers" -> [rule |-> PyList(<<"r">>), focus |-> PyBool(TRUE)]
      [] v = "fingerprinthub" -> [info |-> PyDict([name |-> PyStr(<<"n">>)]),
                                  http |-> PyList(<<"h">>)]
      [] OTHER -> [rule |-> PyStr(<<"r">>)]

\* the external name of the identifying key
ExternalKey(v) == IF v = "fingerprinthub" THEN "id" ELSE "name"

\* records failing validation for another reason than their key, or passing it
\* with a blank required text
OddSamples(v) ==
    CASE v = "goby" -> {[name |-> PyStr(<<"a">>), rule |-> PyList(<<"r">>)]}
      [] v = "wappalyzer" -> {[cats |-> PyList(<<"1">>)]}
      [] v = "fingers" -> {[name |-> PyStr(<<"a">>), rule |-> PyStr(<<"r">>)]}
      [] v = "fingerprinthub" ->
            {[id |-> PyStr(<<"a">>), info |-> PyDict([name |-> PyStr(<<" ">>)]),
              http |-> PyList(<<"h">>)],
             [id |-> PyStr(<<"b">>), info |-> PyDict([author |-> PyStr(<<"u">>)]),
              http |-> PyList(<<"h">>)]}
      [] OTHER -> {[name |-> PyStr(<<"a">>), rule |-> PyStr(<<" ">>)]}

Samples(v) ==
    {PyDict(Merge(SampleBody(v), [k \in {ExternalKey(v)} |-> PyStr(key)])) :
        key \in SampleKeys}
    \cup {PyDict(r) : r \in OddSamples(v)}

\* the sequences of at most n elements of S
RECURSIVE SeqsUpTo(_, _)
SeqsUpTo(S, n) ==
    IF n = 0 THEN {<<>>}
    ELSE LET shorter == SeqsUpTo(S, n - 1)
         IN shorter \cup {Append(q, x) : q \in shorter, x \in S}

Batches(v) == SeqsUpTo(Samples(v), MaxBatch)

\* an object keyed by distinct names, in file order
Objects(keys, bodies) ==
    {PyObject(q, [k \in {q[i] : i \in DOMAIN q} |-> b]) :
        q \in {x \in SeqsUpTo(keys, MaxBatch) :
                  x # <<>> /\ \A i, j \in DOMAIN x : i # j => x[i] # x[j]},
        b \in bodies}

\* documents of the array variants: arrays, keyed objects, scalars
ArrayDocs(v) ==
    {PyList(b) : b \in Batches(v)}
    \cup Objects(SampleKeys, {PyDict(SampleBody(v))})
    \cup {PyDict(NoFields), PyStr(<<"x">>), PyNone}

\* documents of Wappalyzer: {"apps": {...}}, {"technologies": {...}}, an object
\* without either, an array, a scalar
WappalyzerDocs ==
    {PyDict([k \in {top} |-> apps]) :
        top \in {"apps", "technologies"},
        apps \in Objects(SampleKeys, {PyDict(SampleBody("wappalyzer")),
                                      PyDict([cookies |-> PyDict(NoFields)])})
                 \cup {PyDict(NoFields), PyStr(<<"x">>)}}
    \cup {PyDict(NoFields), PyList(<<>>), PyStr(<<"x">>)}

Docs(v) == IF v = "wappalyzer" THEN WappalyzerDocs ELSE ArrayDocs(v)

\* ------------------------------------------------------------- calls
cacheVars == <<store, seq, nmut, cache_file, version_file, lib, pc, current_version,
               cached_version, data, ret, calls, wrote, intf, mut, startHit, prev>>

\* the built-in file of the library is not there
NotFound == [t |-> "notfound", v |-> <<>>, f |-> NoFields]

\* one iteration of Command.handle: the library of this run, its built-in
\* file holding doc
InitOutcome(v, t, doc) ==
    IF doc.t = "notfound" THEN [table |-> t, result |-> Reported("not_found")]
    ELSE IF doc.t = "malformed" THEN [table |-> t, result |-> Reported("read_failed")]
    ELSE IF DataKey(v) # "None" /\ ~IsDict(doc)
         THEN [table |-> t, result |-> Raised("AttributeError", "no_get")]
    ELSE IF extract_fingerprints(doc, DataKey(v)) = <<>>
         THEN [table |-> t, result |-> Reported("no_data")]
    ELSE batch_create_fingerprints(v, t, extract_fingerprints(doc, DataKey(v)))

InitFingerprints(doc) ==
    /\ nreq < MaxReq
    /\ nreq' = nreq + 1
    /\ IF DOMAIN table # {}
       THEN /\ request' = Request("init", "builtin", PyNone)
            /\ result' = Reported("exists")
            /\ table' = table
       ELSE /\ request' = Request("init", "builtin", doc)
            /\ result' = InitOutcome(variant, table, doc).result
            /\ table' = InitOutcome(variant, table, doc).table
    /\ UNCHANGED <<cacheVars, toolVars, variant, exported>>

\* request.FILES.get('file') is None
NoFile == [t |-> "nofile", v |-> <<>>, f |-> NoFields]

YamlNames == {"f.yaml", "f.yml"}

\* the except clause of import_file names json.JSONDecodeError, and json is a
\* local name bound by the import statement of the else branch only
ParseFailure(fname) ==
    IF fname \in YamlNames THEN Raised("UnboundLocalError", "json")
    ELSE Raised("ValidationError", "parse_detail")

ImportFileOutcome(v, t, fname, doc) ==
    IF doc.t = "nofile" THEN [table |-> t, result |-> Raised("ValidationError", "no_file")]
    ELSE IF doc.t = "malformed" THEN [table |-> t, result |-> ParseFailure(fname)]
    ELSE IF ~IsList(doc)
         THEN [table |-> t, result |-> Raised("ValidationError", "not_array")]
    ELSE IF ~Truthy(doc)
         THEN [table |-> t, result |-> Raised("ValidationError", "no_data")]
    ELSE batch_create_fingerprints(v, t, doc.v)

\* ARLFingerprintViewSet.import_file
ImportFile(fname, doc) ==
    /\ variant = "arl"
    /\ nreq < MaxReq
    /\ nreq' = nreq + 1
    /\ request' = Request("import_file", fname, doc)
    /\ result' = ImportFileOutcome(variant, table, fname, doc).result
    /\ table' = ImportFileOutcome(variant, table, fname, doc).table
    /\ UNCHANGED <<cacheVars, toolVars, variant, exported>>

\* <Variant>FingerprintSerializer.validate_name / validate_fp_id
validate_name(value) ==
    IF value = <<>> \/ Strip(value) = <<>>
    THEN [ok |-> FALSE, value |-> value]
    ELSE [ok |-> TRUE, value |-> Strip(value)]

\* a well-formed row as the serializer receives it, with the given unique key
SampleRow(v, key) ==
    [to_model_data(v, SampleBody(v)) EXCEPT ![UniqueField(v)] = PyStr(key)]

\* serializer.is_valid(): the key (and the name of a FingerPrintHub row) pass
\* their validate_ method
SerializerValid(v, row) ==
    /\ validate_name(row[UniqueField(v)].v).ok
    /\ validate_name(row.name.v).ok

\* validated_data
Validated(v, row) ==
    [row EXCEPT ![UniqueField(v)] = PyStr(validate_name(row[UniqueField(v)].v).value)]

\* POST /: create one record
CreateRecord(key) ==
    /\ nreq < MaxReq
    /\ nreq' = nreq + 1
    /\ request' = Request("create", "none", PyStr(key))
    /\ IF ~SerializerValid(variant, SampleRow(variant, key))
       THEN /\ result' = Raised("ValidationError", "blank")
            /\ table' = table
       ELSE IF Strip(key) \in DOMAIN table
       THEN /\ result' = Raised("ValidationError", "unique")
            /\ table' = table
       ELSE /\ result' = Counts(1, 0)
            /\ table' = Put(table, Strip(key), Validated(variant, SampleRow(variant, key)))
    /\ UNCHANGED <<cacheVars, toolVars, variant, exported>>

\* PUT /{id}/: update one record
UpdateRecord(old, key) ==
    /\ old \in DOMAIN table
    /\ nreq < MaxReq
    /\ nreq' = nreq + 1
    /\ request' = Request("update", "none", PyStr(key))
    /\ IF ~SerializerValid(variant, SampleRow(variant, key))
       THEN /\ result' = Raised("ValidationError", "blank")
            /\ table' = table
       ELSE IF Strip(key) \in DOMAIN table \ {old}
       THEN /\ result' = Raised("ValidationError", "unique")
            /\ table' = table
       ELSE /\ result' = Counts(1, 0)
            /\ table' = Put(Drop(table, old), Strip(key),
                            Validated(variant, SampleRow(variant, key)))
    /\ UNCHANGED <<cacheVars, toolVars, variant, exported>>

NotExported == [done |-> FALSE, value |-> {}]
Exported(value) == [done |-> TRUE, value |-> value]

\* GET /export/, export_to_file: service.get_export_data()
Export ==
    /\ nreq < MaxReq
    /\ nreq' = nreq + 1
    /\ exported' = Exported(ExportData(variant, table))
    /\ UNCHANGED <<cacheVars, toolVars, variant, table, request, result>>

Written(n) == [kind |-> "written", created |-> n, failed |-> 0, detail |-> "none"]

\* ARLFingerprintService.export_to_yaml(output_path): the export is dumped to
\* the file and its length returned
export_to_yaml ==
    /\ variant = "arl"
    /\ nreq < MaxReq
    /\ nreq' = nreq + 1
    /\ request' = Request("export_to_yaml", "out.yaml", PyNone)
    /\ exported' = Exported(ExportData(variant, table))
    /\ result' = Written(Cardinality(ExportData(variant, table)))
    /\ UNCHANGED <<cacheVars, toolVars, variant, table>>

\* the cache side at rest
CacheAtRest ==
    /\ CacheInit
    /\ lib = [w \in Workers |-> "arl"]

InitImport ==
    /\ CacheAtRest
    /\ variant \in Variants
    /\ table = NoFields
    /\ request = NoRequest
    /\ result = NoResult
    /\ exported = NotExported
    /\ nreq = 0
    /\ ToolsIdle

NextImport ==
    \/ /\ DOMAIN table = {}
       /\ \E doc \in Docs(variant) \cup {Malformed, NotFound} : InitFingerprints(doc)
    \/ /\ DOMAIN table # {}
       /\ InitFingerprints(NotFound)
    \/ \E fname \in {"f.yaml", "f.json"},
          doc \in ArrayDocs("arl") \cup {Malformed, NoFile} :
          ImportFile(fname, doc)
    \/ \E key \in SampleKeys : CreateRecord(key)
    \/ \E old \in DOMAIN table, key \in SampleKeys :
          UpdateRecord(old, key)
    \/ Export
    \/ export_to_yaml

\* sequences of imports, creates, updates and exports of one variant
SpecImport == InitImport /\ [][NextImport]_vars

\* ---------------------------------------------- one record, every shape
Records(v) ==
    CASE v = "goby" -> GobyRecords
      [] v = "fingers" -> FingersRecords
      [] v = "fingerprinthub" -> FingerPrintHubRecords
      [] OTHER -> ARLRecords

\* built-in files holding one record: an array of one element, or an apps
\* object with one key (and the Wappalyzer containers of several keys)
OneRecordDocs(v) ==
    IF v = "wappalyzer"
    THEN {PyDict([apps |-> PyObject(<<key>>, [k \in {key} |-> PyDict(a)])]) :
             key \in AppKeys, a \in WappalyzerAttrs}
         \cup WappalyzerDocs
    ELSE {PyList(<<PyDict(r)>>) : r \in Records(v)}

NextAdapter ==
    \/ /\ request = NoRequest
       /\ \E doc \in OneRecordDocs(variant) : InitFingerprints(doc)
    \/ /\ request # NoRequest
       /\ Export

\* one record of any shape imported into the empty store, then exported
SpecAdapter == InitImport /\ [][NextAdapter]_vars

\* ------------------------------------------------------ claims C11..C20
\* the last call was an import (file import or built-in initialisation) that
\* read its document
Imported == request.op \in {"import_file", "init"} /\ request.doc.t # "none"

\* the document of the last import was parsed
Parsed == request.doc.t \notin {"malformed", "notfound", "nofile", "none"}

\* the number of records of a sequence that fail validation
RECURSIVE InvalidCount(_, _)
InvalidCount(v, items) ==
    IF items = <<>> THEN 0
    ELSE (IF validate_fingerprint(v, Head(items).f) THEN 0 ELSE 1)
         + InvalidCount(v, Tail(items))

\* C11: an import of a flat sequence of N records of which k fail validation
\* returns created = N - k and failed = k, for every N >= 0 (array variants)
C11_BatchAccounting ==
    (Imported /\ variant # "wappalyzer" /\ IsList(request.doc)) =>
        result = Counts(Len(request.doc.v) - InvalidCount(variant, request.doc.v),
                        InvalidCount(variant, request.doc.v))

\* C12: an import whose document's top level is not an array (array variants)
\* raises a structural error and writes nothing
C12_ContainerRejection ==
    (Imported /\ Parsed /\ nreq = 1 /\ variant # "wappalyzer" /\ ~IsList(request.doc)) =>
        /\ result.kind = "ValidationError"
        /\ DOMAIN table = {}

\* C13: an ARL file import of a malformed document ends in a validation error
\* carrying the parse failure detail and writes nothing, for both encodings
C13_MalformedRejected ==
    (request.op = "import_file" /\ request.doc.t = "malformed" /\ nreq = 1) =>
        /\ result = Raised("ValidationError", "parse_detail")
        /\ DOMAIN table = {}

\* the record of a one-record import that was stored and then exported
RoundTripped(v) ==
    /\ variant = v
    /\ request.op = "init"
    /\ IsList(request.doc)
    /\ result = Counts(1, 0)
    /\ exported.done

\* the raw record of the last one-record import
TheRecord == request.doc.v[1].f

\* r without the optional fields that are at their default value
WithoutDefaults(r, defaults) ==
    [k \in {x \in DOMAIN r : ~(x \in DOMAIN defaults /\ r[x] = defaults[x])} |-> r[k]]

FingersDefaults ==
    [link |-> PyStr(<<>>), tag |-> PyList(<<>>), focus |-> PyBool(FALSE),
     default_port |-> PyList(<<>>)]

\* C14: the export of an accepted Fingers record is the record without its
\* optional fields at default: no field added, no non-default field lost
C14_FingersRoundTrip ==
    RoundTripped("fingers") =>
        exported.value = {WithoutDefaults(TheRecord, FingersDefaults)}

InfoDefaults ==
    [author |-> PyStr(<<>>), tags |-> PyStr(<<>>),
     severity |-> PyStr(<<"i", "n", "f", "o">>), metadata |-> PyDict(NoFields)]

\* a FingerPrintHub record without its optional fields at default, inside info
\* and at the top level
FingerPrintHubWithoutDefaults(r) ==
    LET top == WithoutDefaults(r, [_source_file |-> PyStr(<<>>)])
    IN [top EXCEPT !["info"] = PyDict(WithoutDefaults(r["info"].f, InfoDefaults))]

\* C15: the export of an accepted FingerPrintHub record is the record without
\* its optional fields at default: info holds author, tags, severity, metadata
\* only when the record had them with another value, _source_file only when
\* non-empty
C15_FingerPrintHubRoundTrip ==
    RoundTripped("fingerprinthub") =>
        exported.value = {FingerPrintHubWithoutDefaults(TheRecord)}

\* C16 (as stated): importing {"apps": {key: attrs, ...}} into the empty store
\* and exporting gives {"apps": {key: attrs, ...}} back: one entry per key,
\* every non-empty attribute under its external name, no attribute added
NonEmptyMembers(d) == [k \in {x \in DOMAIN d : Truthy(d[x])} |-> d[k]]

\* the apps object of the last import
TheApps == request.doc.f["apps"]

AppsImported ==
    /\ variant = "wappalyzer"
    /\ request.op = "init"
    /\ IsDict(request.doc)
    /\ "apps" \in DOMAIN request.doc.f
    /\ IsDict(TheApps)
    /\ exported.done

AppsReproduced ==
    exported.value =
        [apps |-> [k \in DOMAIN TheApps.f |-> NonEmptyMembers(TheApps.f[k].f)]]

CleanKey(k) == k # <<>> /\ Head(k) \notin Whitespace /\ k[Len(k)] \notin Whitespace

C17_RoundTripExact ==
    (RoundTripped("goby") \/ RoundTripped("arl")) => exported.value = {TheRecord}

\* the text of a value without its surrounding whitespace
TrimmedText(x) == PyStr(Strip(ToStr(x)))

\* C17 (amended): the export of an accepted Goby or ARL record has the
\* variant's fields only; name is the record's name as trimmed text (and so is
\* ARL's rule), Goby's logic and rule are the record's values
C17_RoundTripTrimmed ==
    /\ RoundTripped("goby") =>
          exported.value = {[name |-> TrimmedText(TheRecord["name"]),
                             logic |-> TheRecord["logic"],
                             rule |-> TheRecord["rule"]]}
    /\ RoundTripped("arl") =>
          exported.value = {[name |-> TrimmedText(TheRecord["name"]),
                             rule |-> TrimmedText(TheRecord["rule"])]}

C17_Witness ==
    /\ RoundTripped("goby")
    /\ TheRecord["name"] # TrimmedText(TheRecord["name"])
    /\ "extra" \in DOMAIN TheRecord

\* C18: a stored Fingers row with focus = false and default_port = [] is
\* exported with neither key; with focus = true it is exported with focus:
\* true, with a non-empty default_port with that default_port
C18_FingersDefaultOmission ==
    (variant = "fingers" /\ exported.done) =>
        \A k \in DOMAIN table :
            \E item \in exported.value :
                /\ item["name"] = table[k].name
                /\ (table[k].focus = PyBool(FALSE) /\ table[k].default_port = PyList(<<>>))
                      => DOMAIN item \cap {"focus", "default_port"} = {}
                /\ table[k].focus = PyBool(TRUE)
                      => ("focus" \in DOMAIN item /\ item["focus"] = PyBool(TRUE))
                /\ table[k].default_port # PyList(<<>>)
                      => /\ "default_port" \in DOMAIN item
                         /\ item["default_port"] = table[k].default_port

C18_Witness ==
    /\ variant = "fingers"
    /\ exported.done
    /\ \E k \in DOMAIN table :
          /\ table[k].focus = PyBool(FALSE)
          /\ table[k].default_port = PyList(<<>>)
          /\ "focus" \in DOMAIN TheRecord

\* the flat sequence of records the last import handed to the pipeline
TheItems == extract_fingerprints(request.doc, DataKey(variant))

\* the identifying key of a raw record is missing, or blank after trimming
BlankKey(v, item) ==
    \/ ExternalKey(v) \notin DOMAIN item
    \/ Strip(ToStr(item[ExternalKey(v)])) = <<>>

RECURSIVE BlankKeyCount(_, _)
BlankKeyCount(v, items) ==
    IF items = <<>> THEN 0
    ELSE (IF BlankKey(v, Head(items).f) THEN 1 ELSE 0) + BlankKeyCount(v, Tail(items))

\* C19: after any sequence of imports, creates and updates every stored row's
\* unique key is non-empty and has no leading or trailing whitespace; a record
\* whose key is missing or blank is counted as failed (import) or refused
\* (create, update)
C19_UniqueKey ==
    /\ \A k \in DOMAIN table :
          /\ CleanKey(k)
          /\ table[k][UniqueField(variant)] = PyStr(k)
    /\ (Imported /\ result.kind = "counts") =>
          /\ result.failed >= BlankKeyCount(variant, TheItems)
          /\ result.created <= Len(TheItems) - BlankKeyCount(variant, TheItems)
    /\ (request.op \in {"create", "update"} /\ Strip(request.doc.v) = <<>>) =>
          result.kind = "ValidationError"

C19_Witness ==
    /\ Imported
    /\ result.kind = "counts"
    /\ BlankKeyCount(variant, TheItems) > 0
    /\ \E i \in DOMAIN TheItems :
          /\ ExternalKey(variant) \in DOMAIN TheItems[i].f
          /\ TheItems[i].f[ExternalKey(variant)] = PyStr(<<" ", "a">>)
    /\ <<"a">> \in DOMAIN table

\* C20: every FingerPrintHub row an import stores has a non-empty name; a
\* record whose info.name is missing, empty or blank is counted as failed
C20_RequiredName ==
    variant = "fingerprinthub" =>
        \A k \in DOMAIN table : table[k].name.v # <<>>

\* ------------------------------------- the init_fingerprints command
MaxRuns == 2        \* runs of the command in one behaviour

\* the "type" of each entry of DEFAULT_FINGERPRINTS, in order
DEFAULT_FINGERPRINTS ==
    <<"ehole", "goby", "wappalyzer", "fingers", "fingerprinthub", "arl">>

\* existing_count > 0 is never true
StoreHasData_Never(t) == FALSE

\* existing_count = model.objects.count(); existing_count > 0
StoreHasData(t) == Cardinality(DOMAIN t) > 0

\* what one iteration of the loop does for library fp_type, its built-in file
\* holding doc, the bulk write failing or not: the counter it increments
\* ("none" when an exception leaves handle) and the rows of the library after it
Iteration(fp_type, t, doc, dbfail) ==
    IF StoreHasData(t) THEN [counter |-> "skipped", table |-> t]
    ELSE LET out == InitOutcome(fp_type, t, doc)
         IN IF out.result.kind = "reported" THEN [counter |-> "failed", table |-> t]
            ELSE IF out.result.kind = "counts"
                 THEN IF dbfail THEN [counter |-> "failed", table |-> t]
                      ELSE [counter |-> "initialized", table |-> out.table]
            ELSE [counter |-> "none", table |-> t]

\* python manage.py init_fingerprints: handle starts
StartRun ==
    /\ status # "running"
    /\ nruns < MaxRuns
    /\ nruns' = nruns + 1
    /\ status' = "running"
    /\ item_index' = 1
    /\ initialized' = 0
    /\ skipped' = 0
    /\ failed' = 0
    /\ UNCHANGED <<cacheVars, adapterVars, pathsVars, mergeVars, tables>>

\* one iteration of the loop over DEFAULT_FINGERPRINTS
HandleItem(doc, dbfail) ==
    /\ status = "running"
    /\ item_index <= Len(DEFAULT_FINGERPRINTS)
    /\ LET fp_type == DEFAULT_FINGERPRINTS[item_index]
           it == Iteration(fp_type, tables[fp_type], doc, dbfail)
       IN /\ tables' = [tables EXCEPT ![fp_type] = it.table]
          /\ initialized' = initialized + (IF it.counter = "initialized" THEN 1 ELSE 0)
          /\ skipped' = skipped + (IF it.counter = "skipped" THEN 1 ELSE 0)
          /\ failed' = failed + (IF it.counter = "failed" THEN 1 ELSE 0)
          /\ item_index' = IF it.counter = "none" THEN item_index ELSE item_index + 1
          /\ status' = IF it.counter = "none" THEN "crashed" ELSE "running"
    /\ UNCHANGED <<cacheVars, adapterVars, pathsVars, mergeVars, nruns>>

\* after the loop: the summary line is written and handle returns
WriteSummary ==
    /\ status = "running"
    /\ item_index > Len(DEFAULT_FINGERPRINTS)
    /\ status' = "finished"
    /\ UNCHANGED <<cacheVars, adapterVars, pathsVars, mergeVars, tables, item_index,
                   initialized, skipped, failed, nruns>>

\* a good and a bad record of a library
GoodRecord(v) == PyDict(Merge(SampleBody(v), [k \in {ExternalKey(v)} |-> PyStr(<<"a">>)]))
BadRecord(v) == PyDict(SampleBody(v))

\* what the built-in file of a library may hold
BuiltinDocs(v) ==
    {NotFound, Malformed, PyStr(<<"x">>)}
    \cup (IF DataKey(v) = "None"
          THEN {PyList(<<>>), PyList(<<GoodRecord(v)>>), PyList(<<BadRecord(v)>>)}
          ELSE IF v = "ehole"
          THEN {PyDict([fingerprint |-> PyList(<<>>)]),
                PyDict([fingerprint |-> PyList(<<GoodRecord(v)>>)]),
                PyDict([fingerprint |-> PyList(<<BadRecord(v)>>)]),
                PyDict(NoFields)}
          ELSE {PyDict([apps |-> PyObject(<<<<"a">>>>, [k \in {<<"a">>} |->
                                                        PyDict(SampleBody(v))])]),
                PyDict([technologies |-> PyObject(<<<<" ">>>>, [k \in {<<" ">>} |->
                                                               PyDict(SampleBody(v))])]),
                PyDict(NoFields)})

InitRun ==
    /\ CacheAtRest
    /\ AdapterIdle
    /\ ToolsIdle

NextRun ==
    \/ StartRun
    \/ /\ status = "running"
       /\ item_index <= Len(DEFAULT_FINGERPRINTS)
       /\ \E doc \in BuiltinDocs(DEFAULT_FINGERPRINTS[item_index]), dbfail \in BOOLEAN :
             HandleItem(doc, dbfail)
    \/ WriteSummary

\* runs of the init command, one after the other
SpecRun == InitRun /\ [][NextRun]_vars

\* ------------------------------------------------ get_fingerprint_paths
MaxLibs == 2        \* names in the list passed to get_fingerprint_paths

\* the process that calls get_fingerprint_paths
Caller == "w1"

\* the names a caller may pass: two supported libraries, one unsupported
RequestedNames == {"goby", "arl", "nmap"}

\* the path is stored whether the ensure function returned or raised
CollectPath_Always(p, lib_name, outcome, path) == Put(p, lib_name, path)

\* try: paths[lib_name] = ensure_func()  except Exception: continue
CollectPath(p, lib_name, outcome, path) ==
    IF outcome = "done" THEN Put(p, lib_name, path) ELSE p

Outcome(lib_name, event, path) == [lib |-> lib_name, event |-> event, path |-> path]

\* the head of an iteration: a name that is not in FINGERPRINT_LIB_MAP is
\* logged and skipped, for another one its ensure function is looked up
LookupEnsure ==
    /\ ensure_func = "none"
    /\ lib_index <= Len(lib_names)
    /\ IF lib_names[lib_index] \notin DOMAIN FINGERPRINT_LIB_MAP
       THEN /\ lib_index' = lib_index + 1
            /\ trace' = Append(trace, Outcome(lib_names[lib_index], "unsupported", ""))
            /\ UNCHANGED <<ensure_func, lib, pc>>
       ELSE /\ ensure_func' = FINGERPRINT_LIB_MAP[lib_names[lib_index]]
            /\ lib' = [lib EXCEPT ![Caller] = lib_names[lib_index]]
            /\ pc' = [pc EXCEPT ![Caller] = "idle"]
            /\ UNCHANGED <<lib_index, trace>>
    /\ UNCHANGED <<storeVars, fileVars, current_version, cached_version, data, ret, calls,
                   histVars, adapterVars, runVars, mergeVars, lib_names, paths>>

\* ensure_func() is entered
CallEnsure ==
    /\ ensure_func # "none"
    /\ pc[Caller] = "idle"
    /\ Start(Caller)

\* ensure_func() returned a path, which is stored, or raised, which is logged;
\* the loop goes on with the next name
Collect ==
    /\ ensure_func # "none"
    /\ pc[Caller] \in {"done", "raised"}
    /\ paths' = CollectPath(paths, lib_names[lib_index], pc[Caller], ret[Caller])
    /\ trace' = Append(trace, Outcome(lib_names[lib_index],
                                     IF pc[Caller] = "done" THEN "returned" ELSE "failed",
                                     IF pc[Caller] = "done" THEN ret[Caller] ELSE ""))
    /\ ensure_func' = "none"
    /\ lib_index' = lib_index + 1
    /\ UNCHANGED <<cacheVars, adapterVars, runVars, mergeVars, lib_names>>

InitPaths ==
    /\ CacheInit
    /\ lib = [w \in Workers |-> "ehole"]
    /\ AdapterIdle
    /\ RunIdle
    /\ MergeIdle
    /\ lib_names \in SeqsUpTo(RequestedNames, MaxLibs)
    /\ lib_index = 1
    /\ ensure_func = "none"
    /\ paths = NoPaths
    /\ trace = <<>>

NextPaths ==
    \/ LookupEnsure
    \/ CallEnsure
    \/ CheckCache(Caller)
    \/ GetExportData(Caller)
    \/ OpenCacheFile(Caller)
    \/ DumpChunk(Caller)
    \/ CloseCacheFile(Caller)
    \/ WriteVersionFile(Caller)
    \/ Fault(Caller)
    \/ Collect

\* one call of get_fingerprint_paths, the ensure functions meeting I/O errors
SpecPaths == InitPaths /\ [][NextPaths]_vars

\* ------------------------------------------------- merge_engine_configs
MaxEngines == 2     \* entries in the list passed to merge_engine_configs

\* a config text is a sequence of lines: blank ones, top-level mapping entries,
\* a bare scalar, an unbalanced brace
MappingLines == {"a: 1", "b: 2"}
TopKey(line) == IF line = "a: 1" THEN "a" ELSE "b"
NotBlankLine(line) == line \notin Whitespace

\* yaml.safe_load(config_yaml): a dict with its keys in order, another value,
\* or yaml.YAMLError
safe_load(config_yaml) ==
    LET body == SelectSeq(config_yaml, NotBlankLine)
    IN IF body = <<>> THEN [kind |-> "none", keys |-> <<>>]
       ELSE IF \A i \in DOMAIN body : body[i] \in MappingLines
            THEN [kind |-> "dict", keys |-> [i \in DOMAIN body |-> TopKey(body[i])]]
       ELSE IF body = <<"x">> THEN [kind |-> "str", keys |-> <<>>]
       ELSE [kind |-> "YAMLError", keys |-> <<>>]

\* not config_yaml or not config_yaml.strip()
BlankConfig(config_yaml) == config_yaml = <<>> \/ Strip(config_yaml) = <<>>

RECURSIVE CheckKeys(_, _, _)
\* for key in parsed.keys(): a key seen before is a conflict with the engine
\* that defined it first, a new one is recorded
CheckKeys(keys, engine_name, st) ==
    IF keys = <<>> THEN st
    ELSE CheckKeys(Tail(keys), engine_name,
            IF Head(keys) \in DOMAIN st.key_to_engine
            THEN [st EXCEPT !.conflicts =
                     Append(@, <<Head(keys), st.key_to_engine[Head(keys)], engine_name>>)]
            ELSE [st EXCEPT !.key_to_engine = Put(@, Head(keys), engine_name)])

RECURSIVE CheckEngines(_, _)
\* for engine_name, config_yaml in engines: blank, unparsable and non-dict
\* configs are passed over
CheckEngines(es, st) ==
    IF es = <<>> THEN st
    ELSE CheckEngines(Tail(es),
            IF BlankConfig(Head(es).config) \/ safe_load(Head(es).config).kind # "dict"
            THEN st
            ELSE CheckKeys(safe_load(Head(es).config).keys, Head(es).name, st))

RECURSIVE StrippedConfigs(_)
\* configs: config_yaml.strip() of every entry that is not blank
StrippedConfigs(es) ==
    IF es = <<>> THEN <<>>
    ELSE (IF BlankConfig(Head(es).config) THEN <<>> ELSE <<Strip(Head(es).config)>>)
         \o StrippedConfigs(Tail(es))

RECURSIVE Join(_)
\* "\n\n".join(configs)
Join(configs) ==
    IF configs = <<>> THEN <<>>
    ELSE IF Len(configs) = 1 THEN Head(configs)
    ELSE Head(configs) \o <<"\n\n">> \o Join(Tail(configs))

Returned(text) == [done |-> TRUE, kind |-> "text", text |-> text, conflicts |-> <<>>]

\* raise ConfigConflictError(conflicts)
ConfigConflictError(conflicts) ==
    [done |-> TRUE, kind |-> "ConfigConflictError", text |-> <<>>, conflicts |-> conflicts]

merge_engine_configs(es) ==
    IF es = <<>> THEN Returned(<<>>)
    ELSE IF Len(es) = 1 THEN Returned(es[1].config)
    ELSE LET st == CheckEngines(es, [key_to_engine |-> NoPaths, conflicts |-> <<>>])
         IN IF st.conflicts # <<>> THEN ConfigConflictError(st.conflicts)
            ELSE Returned(Join(StrippedConfigs(es)))

\* the call
CallMerge ==
    /\ ~merged.done
    /\ merged' = merge_engine_configs(engines)
    /\ UNCHANGED <<cacheVars, adapterVars, runVars, pathsVars, engines>>

ConfigTexts ==
    {<<>>, <<" ">>, <<"a: 1">>, <<" ", "a: 1", "\n">>, <<"a: 1", "b: 2">>, <<"b: 2">>,
     <<"x">>, <<"{">>, <<"a: 1", "{">>}

EngineEntries == [name : {"e1", "e2"}, config : ConfigTexts]

InitMerge ==
    /\ CacheAtRest
    /\ AdapterIdle
    /\ RunIdle
    /\ PathsIdle
    /\ engines \in SeqsUpTo(EngineEntries, MaxEngines)
    /\ merged = NotMerged

NextMerge == CallMerge

\* one call of merge_engine_configs on every list of entries
SpecMerge == InitMerge /\ [][NextMerge]_vars

\* ------------------------------------------------------ claims C21..C30
\* the last call imported a one-record array of the given variant
OneRecordImport(v) ==
    /\ variant = v
    /\ request.op = "init"
    /\ IsList(request.doc)
    /\ Len(request.doc.v) = 1

\* the field of a raw record is there and is a text
IsText(r, key) == key \in DOMAIN r /\ r[key].t = "str"

\* a Goby record with a name that is non-empty after trimming, a non-empty
\* logic and an array as rule
GobyAcceptable(r) ==
    /\ IsText(r, "name") /\ Strip(r["name"].v) # <<>>
    /\ "logic" \in DOMAIN r /\ r["logic"] # PyStr(<<>>)
    /\ "rule" \in DOMAIN r /\ r["rule"].t = "list"

TheContainer == ExtractTarget(request.doc, "apps")

\* the last call imported a Wappalyzer document holding a keyed container
ContainerImported ==
    /\ variant = "wappalyzer"
    /\ request.op = "init"
    /\ IsDict(request.doc)
    /\ DOMAIN request.doc.f \cap {"apps", "technologies"} # {}
    /\ IsDict(TheContainer)

\* C22: flattening the container under apps or technologies gives one raw
\* record per key, its name the key, the key's attributes beside it, and each
\* of them is counted by the import; a document whose top level is neither a
\* list nor a keyed object gives no records: the import reports that the file
\* holds no data
C22_WappalyzerFlatten ==
    /\ ContainerImported =>
          /\ Len(TheItems) = Cardinality(DOMAIN TheContainer.f)
          /\ \A k \in DOMAIN TheContainer.f :
                \E i \in DOMAIN TheItems :
                    /\ TheItems[i].f["name"] = PyStr(k)
                    /\ Restrict(TheItems[i].f, DOMAIN TheItems[i].f \ {"name"})
                          = TheContainer.f[k].f
          /\ IF DOMAIN TheContainer.f = {} THEN result = Reported("no_data")
             ELSE /\ result.kind = "counts"
                  /\ result.created + result.failed = Cardinality(DOMAIN TheContainer.f)
    /\ (request.op = "init" /\ Parsed /\ ~IsList(request.doc) /\ ~IsDict(request.doc)) =>
          result = Reported("no_data")

\* the number of raw records of an export: the length of the list, the number
\* of keys under apps for Wappalyzer
ExportSize(v, value) ==
    IF v = "wappalyzer" THEN Cardinality(DOMAIN value["apps"]) ELSE Cardinality(value)

\* the identifying keys of the raw records of an export
ExportKeys(v, value) ==
    IF v = "wappalyzer" THEN DOMAIN value["apps"]
    ELSE {item[ExternalKey(v)].v : item \in value}

\* C23: every export holds exactly one raw record per row stored when it is
\* made (as many records as rows, under the rows' keys), and export_to_yaml
\* returns the number of records it wrote
C23_ExportComplete ==
    [][/\ (exported'.done /\ (Export \/ export_to_yaml)) =>
             /\ ExportSize(variant, exported'.value) = Cardinality(DOMAIN table)
             /\ ExportKeys(variant, exported'.value) = DOMAIN table
       /\ (exported'.done /\ export_to_yaml) =>
             /\ result'.kind = "written"
             /\ result'.created = Cardinality(DOMAIN table)
             /\ result'.created = ExportSize(variant, exported'.value)]_vars

C23_Witness ==
    /\ request.op = "export_to_yaml"
    /\ result = Written(2)
    /\ Cardinality(DOMAIN table) = 2
    /\ exported.done
    /\ Cardinality(exported.value) = 2

\* the fields validate_fingerprint reads
RequiredFields(v) ==
    CASE v = "goby" -> {"name", "logic", "rule"}
      [] v = "fingerprinthub" -> {"id", "info", "http"}
      [] v = "wappalyzer" -> {"name"}
      [] OTHER -> {"name", "rule"}

\* a raw record without its optional fields
RequiredOnly(v, r) ==
    IF v = "fingerprinthub" /\ "info" \in DOMAIN r /\ IsDict(r["info"])
    THEN [Restrict(r, RequiredFields(v)) EXCEPT
             !["info"] = PyDict(Restrict(r["info"].f, {"name"}))]
    ELSE Restrict(r, RequiredFields(v))

WappalyzerDefaults ==
    [cats |-> PyList(<<>>), cookies |-> PyDict(NoFields), headers |-> PyDict(NoFields),
     script_src |-> PyList(<<>>), js |-> PyList(<<>>), implies |-> PyList(<<>>),
     meta |-> PyDict(NoFields), html |-> PyList(<<>>), description |-> PyStr(<<>>),
     website |-> PyStr(<<>>), cpe |-> PyStr(<<>>)]

\* the defaults of the optional model fields of a variant
ModelDefaults(v) ==
    CASE v = "fingers" -> FingersDefaults
      [] v = "fingerprinthub" -> Merge(InfoDefaults, [source_file |-> PyStr(<<>>)])
      [] v = "wappalyzer" -> WappalyzerDefaults
      [] OTHER -> NoFields

\* the optional model fields whose external field the raw record lacks
AbsentOptional(v, r) ==
    CASE v = "fingers" -> DOMAIN FingersDefaults \ DOMAIN r
      [] v = "fingerprinthub" ->
            (DOMAIN InfoDefaults \ DOMAIN r["info"].f)
            \cup (IF "_source_file" \in DOMAIN r THEN {} ELSE {"source_file"})
      [] v = "wappalyzer" ->
            {Wappalyzer_model_field(a) : a \in Wappalyzer_attributes \ DOMAIN r}
      [] OTHER -> {}

\* the last call handed exactly one raw record to the pipeline
OneItemImport ==
    /\ request.op = "init"
    /\ Parsed
    /\ result.kind # "AttributeError"
    /\ Len(TheItems) = 1

TheItem == TheItems[1].f

\* C24: for every variant and every raw record that is a mapping, whatever its
\* fields hold, validate_fingerprint raises nothing and the record is counted
\* as created or as failed; which of the two does not depend on its optional
\* fields; for an accepted record to_model_data raises nothing and the stored
\* row has the default in every optional field the record lacks
C24_AdaptersTotal ==
    OneItemImport =>
        /\ ~validate_fingerprint_raises(variant, TheItem)
        /\ result \in {Counts(1, 0), Counts(0, 1)}
        /\ (result = Counts(1, 0)) =
              validate_fingerprint(variant, RequiredOnly(variant, TheItem))
        /\ result = Counts(1, 0) =>
              /\ ~to_model_data_raises(variant, TheItem)
              /\ \A k \in DOMAIN table :
                    \A field \in AbsentOptional(variant, TheItem) :
                        table[k][field] = ModelDefaults(variant)[field]

C24_Witness ==
    /\ OneItemImport
    /\ variant = "fingerprinthub"
    /\ result = Counts(1, 0)
    /\ DOMAIN TheItem = {"id", "info", "http"}
    /\ DOMAIN TheItem["info"].f = {"name"}
    /\ \E k \in DOMAIN table : table[k].severity = PyStr(<<"i", "n", "f", "o">>)

\* the library the running command is about to handle
TheType == DEFAULT_FINGERPRINTS[item_index]

\* the step is one iteration of the loop of handle
IterationStep ==
    /\ status = "running"
    /\ item_index <= Len(DEFAULT_FINGERPRINTS)
    /\ (item_index' # item_index \/ status' # status)

\* C25: the command skips a library exactly when its store holds a record at
\* the check, and then leaves the store as it is; it imports only into an
\* empty store; no step of any run changes a store that holds records, so a
\* run after one that stored records leaves those libraries unchanged
C25_InitRepeatable ==
    [][/\ IterationStep =>
             /\ (skipped' = skipped + 1) = (DOMAIN tables[TheType] # {})
             /\ skipped' \in {skipped, skipped + 1}
             /\ DOMAIN tables[TheType] # {} =>
                   (tables' = tables /\ initialized' = initialized /\ failed' = failed)
             /\ initialized' # initialized => DOMAIN tables[TheType] = {}
             /\ \A l \in Libs \ {TheType} : tables'[l] = tables[l]
       /\ \A l \in Libs : DOMAIN tables[l] # {} => tables'[l] = tables[l]]_vars

C25_Witness ==
    /\ nruns = 2
    /\ status = "finished"
    /\ skipped = 6
    /\ \A l \in Libs : DOMAIN tables[l] = {<<"a">>}

\* C30: in a run of the command every library handled so far was counted in
\* exactly one of initialized, skipped and failed, no outcome of one library
\* stops the loop before the libraries after it, and at the end the three
\* counters sum to six
C30_RunAccounting ==
    /\ status # "crashed"
    /\ status = "running" => initialized + skipped + failed = item_index - 1
    /\ status = "finished" => initialized + skipped + failed = Len(DEFAULT_FINGERPRINTS)

\* get_fingerprint_paths has handled every name and returns paths
PathsReturned == lib_index > Len(lib_names) /\ ensure_func = "none"

\* the positions of lib_names whose ensure function returned
ReturnedAt == {i \in DOMAIN trace : trace[i].event = "returned"}

\* C26: every name handled so far has its outcome, whatever became of the
\* names before it; an unsupported name is skipped; the keys of paths are
\* exactly the supported names whose ensure function returned, each with the
\* path of its cache file as returned; a name whose ensure function raised is
\* not a key unless another call for it returned
C26_FingerprintPaths ==
    /\ Len(trace) = lib_index - 1
    /\ \A i \in DOMAIN trace :
          /\ trace[i].lib = lib_names[i]
          /\ (trace[i].event = "unsupported") = (lib_names[i] \notin Libs)
    /\ DOMAIN paths = {lib_names[i] : i \in ReturnedAt}
    /\ \A l \in DOMAIN paths : paths[l] = CachePath(l)
    /\ \A i \in ReturnedAt : trace[i].path = paths[lib_names[i]]

C26_Witness ==
    /\ PathsReturned
    /\ Len(lib_names) = 2
    /\ trace[1].event = "failed"
    /\ trace[2].event = "returned"
    /\ lib_names[1] # lib_names[2]
    /\ DOMAIN paths = {lib_names[2]}

\* the top-level keys of the mapping entry i parses to (none when the config
\* is blank, does not parse, or parses to something else)
MappingKeys(i) ==
    IF ~BlankConfig(engines[i].config) /\ safe_load(engines[i].config).kind = "dict"
    THEN {safe_load(engines[i].config).keys[n] :
             n \in DOMAIN safe_load(engines[i].config).keys}
    ELSE {}

\* key k of entry j repeats a key of an earlier entry, i being the first to
\* define it
Repeats(k, i, j) ==
    /\ i < j
    /\ k \in MappingKeys(i) \cap MappingKeys(j)
    /\ \A h \in 1..(i - 1) : k \notin MappingKeys(h)

ExpectedConflicts ==
    {<<t[1], engines[t[2]].name, engines[t[3]].name>> :
        t \in {u \in {"a", "b"} \X (DOMAIN engines) \X (DOMAIN engines) :
                  Repeats(u[1], u[2], u[3])}}

\* C27: a call with two or more entries raises ConfigConflictError exactly
\* when a top-level key occurs in the mappings of two entries, reporting each
\* such key with the first engine defining it and the later one repeating it;
\* otherwise it returns the non-blank configs, stripped, joined by a blank
\* line in input order, and every config in the output was parsed to a
\* mapping and checked for conflicts
C27_MergeConfigs ==
    (merged.done /\ Len(engines) >= 2) =>
        /\ (merged.kind = "ConfigConflictError") = (ExpectedConflicts # {})
        /\ merged.kind = "ConfigConflictError" =>
              {merged.conflicts[n] : n \in DOMAIN merged.conflicts} = ExpectedConflicts
        /\ merged.kind = "text" =>
              /\ merged.text = Join(StrippedConfigs(engines))
              /\ \A i \in DOMAIN engines :
                    ~BlankConfig(engines[i].config) =>
                        safe_load(engines[i].config).kind = "dict"

\* a call of another process on the library of w was interrupted after it had
\* opened the data file for writing, before this call of w started
InterruptedBefore(w) ==
    /\ ~intf[w]
    /\ \E x \in Peers(w) : pc[x] = "raised" /\ wrote[x] = "open"

\* C28: after a refresh of a library was interrupted while it was overwriting
\* the data file, a later call for that library that returns from the cache
\* check (a hit) returns a data file holding a whole export, never an empty or
\* truncated one
C28_InterruptedRefresh ==
    [][\A w \in Workers :
          (pc[w] = "check" /\ pc'[w] = "done" /\ InterruptedBefore(w)) =>
              cache_file[lib[w]].st = "full"]_vars

\* the data file or the marker of library l is written in this step
FilesWritten(l) == cache_file'[l] # cache_file[l] \/ version_file'[l] # version_file[l]

\* C29: a step of the ensure function of one library leaves the data file and
\* the marker of every other library as they are: a file changes only while
\* the ensure function of its own library is running, whether that call hits,
\* refreshes or fails
C29_LibraryIsolation ==
    [][/\ \A l \in Libs :
            FilesWritten(l) => \E w \in Workers : lib[w] = l /\ Running(w)
       /\ \A w \in Workers :
            (Running(w) /\ pc'[w] # pc[w]) =>
                \A l \in Libs \ {lib[w]} : ~FilesWritten(l)]_vars

C29_Witness ==
    /\ Len(trace) = 2
    /\ trace[1].event = "returned"
    /\ trace[2].event = "failed"
    /\ trace[1].lib # trace[2].lib
    /\ CacheCurrent(trace[1].lib)
    /\ cache_file[trace[2].lib].st = "partial"

====
